---- MODULE Spec2Model ----
(***************************************************************************)
(* Model of cleanup_json.py: the catalog (content.json) and the image      *)
(* folder (images/) as main() walks through its steps: percent-name purge, *)
(* load, existence filter, top-30 truncation, asterisk sanitization,       *)
(* conditional save, unused-image reaper.                                  *)
(*                                                                         *)
(* Text is a sequence of one-character strings, so that lower-casing,      *)
(* suffix tests, URL splitting and character removal are computed.         *)
(* A catalog entry is a function from the keys it carries to values        *)
(* [isStr, v]: isStr tells a JSON string from any other JSON value.        *)
(***************************************************************************)
EXTENDS Integers, Sequences, FiniteSets, TLC

VARIABLES
    disk,              \* content.json: [kind: "missing"|"malformed"|"ok", data]
    folderExists,      \* os.path.exists(images)
    files,             \* names of the files directly in images/
    pc,                \* position of main()
    run,               \* 1 = first run, 2 = run on the first run's output
    content,           \* main: content
    filtered_content,  \* main: filtered_content
    removed_entries,   \* main: removed_entries
    final_content,     \* main: final_content
    trimmed_entries,   \* main: trimmed_entries
    sanitize_changes,  \* main: sanitize_changes
    removed_percent,   \* main: removed_percent (as a set)
    removed_images,    \* main: removed_images (as a set)
    exit_code,         \* value returned by main(), -1 while running
    hist               \* observations of the run, read by the properties only

vars == <<disk, folderExists, files, pc, run, content,
          filtered_content, removed_entries, final_content, trimmed_entries,
          sanitize_changes, removed_percent, removed_images, exit_code, hist>>

-----------------------------------------------------------------------------
(* Text helpers                                                            *)

UpperToLower ==
    [A |-> "a", B |-> "b", C |-> "c", D |-> "d", E |-> "e", F |-> "f",
     G |-> "g", H |-> "h", I |-> "i", J |-> "j", K |-> "k", L |-> "l",
     M |-> "m", N |-> "n", O |-> "o", P |-> "p", Q |-> "q", R |-> "r",
     S |-> "s", T |-> "t", U |-> "u", V |-> "v", W |-> "w", X |-> "x",
     Y |-> "y", Z |-> "z"]

Letters == DOMAIN UpperToLower \cup {UpperToLower[c] : c \in DOMAIN UpperToLower}

Digits == {"0", "1", "2", "3", "4", "5", "6", "7", "8", "9"}

\* str.lower()
Lower(s) ==
    [i \in 1..Len(s) |->
        IF s[i] \in DOMAIN UpperToLower THEN UpperToLower[s[i]] ELSE s[i]]

\* str.endswith(suffix)
EndsWith(s, suf) ==
    /\ Len(suf) <= Len(s)
    /\ SubSeq(s, Len(s) - Len(suf) + 1, Len(s)) = suf

\* c in s
Contains(s, c) == \E i \in 1..Len(s) : s[i] = c

\* s.find(c) for a set of characters, 1-based; 0 when absent
Find(s, cs) ==
    IF \E i \in 1..Len(s) : s[i] \in cs
    THEN CHOOSE i \in 1..Len(s) :
            /\ s[i] \in cs
            /\ \A j \in 1..(i - 1) : s[j] \notin cs
    ELSE 0

\* s.rfind(c), 1-based; 0 when absent
RFind(s, c) ==
    IF \E i \in 1..Len(s) : s[i] = c
    THEN CHOOSE i \in 1..Len(s) :
            /\ s[i] = c
            /\ \A j \in (i + 1)..Len(s) : s[j] # c
    ELSE 0

\* s[:i-1] and s[i:] in 1-based terms
Before(s, i) == SubSeq(s, 1, i - 1)
From(s, i) == SubSeq(s, i, Len(s))

\* a replace that stops after the first occurrence, as str.replace(c, '', 1)
RemoveChar_FirstOnly(s, c) ==
    LET i == Find(s, {c})
    IN  IF i = 0 THEN s ELSE Before(s, i) \o From(s, i + 1)

\* str.replace(c, '')
RECURSIVE RemoveChar(_, _)
RemoveChar(s, c) ==
    IF s = <<>> THEN <<>>
    ELSE IF Head(s) = c THEN RemoveChar(Tail(s), c)
    ELSE <<Head(s)>> \o RemoveChar(Tail(s), c)

-----------------------------------------------------------------------------
(* urllib.parse.urlparse(url).path and os.path.basename                    *)

SchemeChars == Letters \cup Digits \cup {"+", "-", "."}

\* schemes of urllib.parse.uses_params that the modelled URLs can carry
UsesParams == {<<>>, <<"h", "t", "t", "p">>, <<"f", "t", "p">>}

\* the scheme split: <<scheme, rest>>
SplitScheme(url) ==
    LET i == Find(url, {":"})
    IN  IF /\ i > 1
           /\ url[1] \in Letters
           /\ \A j \in 1..(i - 1) : url[j] \in SchemeChars
        THEN <<Lower(Before(url, i)), From(url, i + 1)>>
        ELSE <<<<>>, url>>

\* the netloc split: what follows "//" up to the first of / ? #
DropNetloc(rest) ==
    IF Len(rest) >= 2 /\ rest[1] = "/" /\ rest[2] = "/"
    THEN LET tail == From(rest, 3)
             d == Find(tail, {"/", "?", "#"})
         IN  IF d = 0 THEN <<>> ELSE From(tail, d)
    ELSE rest

\* cut at the first occurrence of c
CutAt(s, c) ==
    LET i == Find(s, {c}) IN IF i = 0 THEN s ELSE Before(s, i)

\* urllib.parse._splitparams: the ";params" of the last path segment
SplitParams(url) ==
    LET slash == RFind(url, "/")
        tail == From(url, slash + 1)
        i == Find(tail, {";"})
    IN  IF i = 0 THEN url ELSE Before(url, slash + i)

UrlPath(url) ==
    LET sr == SplitScheme(url)
        p == CutAt(CutAt(DropNetloc(sr[2]), "#"), "?")
    IN  IF sr[1] \in UsesParams /\ Contains(p, ";") THEN SplitParams(p) ELSE p

Basename(path) == From(path, RFind(path, "/") + 1)

\* filename = os.path.basename(urlparse(image_url).path)
ResolveFilename(image_url) == Basename(UrlPath(image_url))

-----------------------------------------------------------------------------
(* Values, entries, files                                                  *)

Str(s) == [isStr |-> TRUE, v |-> s]
NonStr(s) == [isStr |-> FALSE, v |-> s]

NoTitle == Str(<<"N", "o", " ", "t", "i", "t", "l", "e">>)
NoImage == Str(<<"N", "o", " ", "i", "m", "a", "g", "e">>)

FallbackLower ==
    <<"f", "a", "l", "l", "b", "a", "c", "k", "i", "m", "a", "g", "e",
      ".", "p", "n", "g">>

ImageExtensions ==
    { <<".", "j", "p", "g">>, <<".", "j", "p", "e", "g">>,
      <<".", "p", "n", "g">>, <<".", "g", "i", "f">>,
      <<".", "b", "m", "p">>, <<".", "w", "e", "b", "p">> }

\* files the folder may hold
F_a == <<"a", ".", "P", "N", "G">>
F_pct == <<"b", "%", ".", "j", "p", "g">>
F_fallback ==
    <<"f", "a", "l", "l", "b", "a", "c", "k", "I", "m", "a", "g", "e",
      ".", "p", "n", "g">>
F_txt == <<"n", ".", "t", "x", "t">>

FileNames == {F_a, F_pct, F_fallback, F_txt}

\* entries a catalog may hold
E_a ==
    [title |-> Str(<<"A", "*">>),
     image |-> Str(<<"h", "t", "t", "p", ":", "/", "/", "x", "/",
                     "A", ".", "p", "n", "g", ";", "p">>)]
E_pct ==
    [image |-> Str(<<"/", "/", "x", "/", "i", "/", "b", "%", ".", "j", "p", "g",
                     "?", "v", "#", "f">>)]
E_text ==
    [title |-> NonStr(<<"*">>), description |-> Str(<<"*", "d", "*">>)]
E_noname ==
    [title |-> Str(<<"Z">>),
     image |-> Str(<<"h", "t", "t", "p", ":", "/", "/", "x", "/">>)]
E_pad == [title |-> Str(<<"P">>)]

Entries == {E_a, E_pct, E_text, E_noname}

\* keep_top_elements(filtered_content, 30)
Limit == 30

MaxHead == 2

Pad(n) == [i \in 1..n |-> E_pad]

SeqsUpTo(S, n) == UNION {[1..k -> S] : k \in 0..n}

\* catalogs: up to MaxHead arbitrary entries, then none or Limit - 1 entries
\* that always survive the filter, then at most one arbitrary entry
Catalogs ==
    { h \o Pad(n) \o t :
        h \in SeqsUpTo(Entries, MaxHead),
        n \in {0, Limit - 1},
        t \in {<<>>} \cup {<<e>> : e \in Entries} }

\* content.json is held as the array it parses to: json.dump with indent=2
\* and ensure_ascii=False followed by json.load gives back the same array of
\* objects, so a written catalog is the sequence that was written
DiskOk(c) == [kind |-> "ok", data |-> c]
DiskMissing == [kind |-> "missing", data |-> <<>>]
DiskMalformed == [kind |-> "malformed", data |-> <<>>]

-----------------------------------------------------------------------------
(* The functions of cleanup_json.py                                        *)

HasImage(item) == "image" \in DOMAIN item

\* item.get(key, default)
Get(item, key, default) == IF key \in DOMAIN item THEN item[key] ELSE default

\* a loader that catches FileNotFoundError only
load_json_content_MissingOnly(d) == d.kind # "missing"

\* load_json_content returns a value (not None)
load_json_content(d) == d.kind = "ok"

\* a loop that compares the filename as written, without lower()
RECURSIVE FilterLoop_CaseSensitive(_, _)
FilterLoop_CaseSensitive(c, folder_files_lower) ==
    IF c = <<>> THEN [kept |-> <<>>, removed |-> <<>>]
    ELSE
        LET item == Head(c)
            rest == FilterLoop_CaseSensitive(Tail(c), folder_files_lower)
            filename == ResolveFilename(item["image"].v)
        IN  IF HasImage(item) /\ filename # <<>>
                /\ filename \notin folder_files_lower
            THEN [rest EXCEPT !.removed =
                    <<[title |-> Get(item, "title", NoTitle),
                       image |-> filename]>> \o @]
            ELSE [rest EXCEPT !.kept = <<item>> \o @]

\* the for loop of filter_content_by_existing_images
RECURSIVE FilterLoop(_, _)
FilterLoop(c, folder_files_lower) ==
    IF c = <<>> THEN [kept |-> <<>>, removed |-> <<>>]
    ELSE
        LET item == Head(c)
            rest == FilterLoop(Tail(c), folder_files_lower)
            filename == ResolveFilename(item["image"].v)
        IN  IF HasImage(item)
            THEN IF filename # <<>>
                 THEN IF Lower(filename) \in folder_files_lower
                      THEN [rest EXCEPT !.kept = <<item>> \o @]
                      ELSE [rest EXCEPT !.removed =
                              <<[title |-> Get(item, "title", NoTitle),
                                 image |-> filename]>> \o @]
                 ELSE [rest EXCEPT !.kept = <<item>> \o @]
            ELSE [rest EXCEPT !.kept = <<item>> \o @]

filter_content_by_existing_images(c, exists, listOk, fs) ==
    IF c = <<>> THEN [kept |-> <<>>, removed |-> <<>>]
    ELSE IF ~exists THEN [kept |-> c, removed |-> <<>>]
    ELSE IF ~listOk THEN [kept |-> c, removed |-> <<>>]
    ELSE FilterLoop(c, {Lower(f) : f \in fs})

\* a truncator that numbers the trimmed entries from limit, not limit + 1
keep_top_elements_PositionFromLimit(c, limit) ==
    IF c = <<>> THEN [kept |-> <<>>, removed |-> <<>>]
    ELSE IF Len(c) <= limit THEN [kept |-> c, removed |-> <<>>]
    ELSE [kept |-> SubSeq(c, 1, limit),
          removed |->
            [k \in 1..(Len(c) - limit) |->
                [position |-> limit + k - 1,
                 title |-> Get(c[limit + k], "title", NoTitle),
                 image |-> Get(c[limit + k], "image", NoImage)]]]

keep_top_elements(c, limit) ==
    IF c = <<>> THEN [kept |-> <<>>, removed |-> <<>>]
    ELSE IF Len(c) <= limit THEN [kept |-> c, removed |-> <<>>]
    ELSE [kept |-> SubSeq(c, 1, limit),
          removed |->
            [k \in 1..(Len(c) - limit) |->
                [position |-> limit + k,
                 title |-> Get(c[limit + k], "title", NoTitle),
                 image |-> Get(c[limit + k], "image", NoImage)]]]

\* the inner loop of sanitize_asterisks over ('title', 'description')
SanitizeKey(r, key) ==
    IF key \in DOMAIN r.item /\ r.item[key].isStr
    THEN LET new_val == RemoveChar(r.item[key].v, "*")
         IN  IF new_val # r.item[key].v
             THEN [item |-> [r.item EXCEPT ![key] = Str(new_val)],
                   changes |-> r.changes + 1]
             ELSE r
    ELSE r

SanitizeItem(item) ==
    SanitizeKey(SanitizeKey([item |-> item, changes |-> 0], "title"),
                "description")

RECURSIVE sanitize_asterisks(_)
sanitize_asterisks(c) ==
    IF c = <<>> THEN [content |-> <<>>, changes |-> 0]
    ELSE LET h == SanitizeItem(Head(c))
             rest == sanitize_asterisks(Tail(c))
         IN  [content |-> <<h.item>> \o rest.content,
              changes |-> h.changes + rest.changes]

\* a used set of the filenames as written, without lower()
get_images_used_in_content_AsWritten(c) ==
    { ResolveFilename(c[i]["image"].v) :
        i \in { j \in 1..Len(c) :
                  /\ HasImage(c[j])
                  /\ ResolveFilename(c[j]["image"].v) # <<>> } }

get_images_used_in_content(c) ==
    { Lower(ResolveFilename(c[i]["image"].v)) :
        i \in { j \in 1..Len(c) :
                  /\ HasImage(c[j])
                  /\ ResolveFilename(c[j]["image"].v) # <<>> } }

\* a used set without the fallback name
UsedImages_NoFallback(c) == get_images_used_in_content(c)

\* used_images after used_images.add('fallbackimage.png')
UsedImages(c) == get_images_used_in_content(c) \cup {FallbackLower}

\* an extension test on the name as written, without lower()
IsImageFile_CaseSensitive(f) == \E e \in ImageExtensions : EndsWith(f, e)

\* filename.lower().endswith(('.jpg', '.jpeg', '.png', '.gif', '.bmp', '.webp'))
IsImageFile(f) == \E e \in ImageExtensions : EndsWith(Lower(f), e)

\* the files remove_unused_images calls os.remove on
UnusedImages(c, exists, listOk, fs) ==
    IF c = <<>> THEN {}
    ELSE IF ~exists THEN {}
    ELSE IF ~listOk THEN {}
    ELSE { f \in fs : IsImageFile(f) /\ Lower(f) \notin UsedImages(c) }

\* the files remove_percent_images calls os.remove on (os.listdir gives
\* the names in no particular order, so the removed lists are sets here)
PercentImages(exists, listOk, fs) ==
    IF ~exists THEN {}
    ELSE IF ~listOk THEN {}
    ELSE { f \in fs : Contains(f, "%") }

\* a need_save that leaves out sanitize_changes
need_save_NoSanitize(removed, trimmed, changes) ==
    removed # <<>> \/ trimmed # <<>>

\* need_save = bool(removed_entries or trimmed_entries or sanitize_changes)
need_save(removed, trimmed, changes) ==
    removed # <<>> \/ trimmed # <<>> \/ changes # 0

-----------------------------------------------------------------------------
(* main()                                                                  *)

\* what the properties read of a run: the steps of main() that ran, the
\* files deleted so far, the steps in which an os.remove or an os.listdir
\* raised, what the save did, the catalog and folder at the start of the
\* run, the folder as the reaper found it, and of the run before: whether
\* it wrote the catalog and deleted files, and whether such calls raised
NoRun == [changed |-> FALSE, listFail |-> FALSE]

FreshHist(d, fs, prev) ==
    [steps |-> {}, deleted |-> {}, delFail |-> {}, listFail |-> {},
     saveCalled |-> FALSE, saveFailed |-> FALSE,
     disk0 |-> d, files0 |-> fs, filesAtReap |-> {},
     prev |-> prev]

Init ==
    /\ disk \in {DiskMissing, DiskMalformed} \cup {DiskOk(c) : c \in Catalogs}
    /\ folderExists \in BOOLEAN
    /\ files \in (IF folderExists THEN SUBSET FileNames ELSE {{}})
    /\ pc = "purge"
    /\ run = 1
    /\ content = <<>>
    /\ filtered_content = <<>>
    /\ removed_entries = <<>>
    /\ final_content = <<>>
    /\ trimmed_entries = <<>>
    /\ sanitize_changes = 0
    /\ removed_percent = {}
    /\ removed_images = {}
    /\ exit_code = -1
    /\ hist = FreshHist(disk, files, NoRun)

\* os.listdir(images_folder) returns or raises OSError
ListOutcomes == IF folderExists THEN BOOLEAN ELSE {TRUE}

\* removed_percent = remove_percent_images(images_folder)
remove_percent_images ==
    /\ pc = "purge"
    /\ \E listOk \in ListOutcomes :
         LET candidates == PercentImages(folderExists, listOk, files)
         IN  \E failing \in SUBSET candidates :
                /\ removed_percent' = candidates \ failing
                /\ files' = files \ removed_percent'
                /\ hist' = [hist EXCEPT
                              !.steps = @ \cup {"purge"},
                              !.deleted = @ \cup removed_percent',
                              !.delFail = IF failing = {} THEN @ ELSE @ \cup {"purge"},
                              !.listFail = IF listOk THEN @ ELSE @ \cup {"purge"}]
    /\ pc' = "load"
    /\ UNCHANGED <<disk, folderExists, run, content, filtered_content,
                   removed_entries, final_content, trimmed_entries,
                   sanitize_changes, removed_images, exit_code>>

\* content = load_json_content(content_file); if content is None: return 1
LoadOk ==
    /\ pc = "load"
    /\ load_json_content(disk)
    /\ content' = disk.data
    /\ pc' = "filter"
    /\ hist' = [hist EXCEPT !.steps = @ \cup {"load"}]
    /\ UNCHANGED <<disk, folderExists, files, run, filtered_content,
                   removed_entries, final_content, trimmed_entries,
                   sanitize_changes, removed_percent, removed_images,
                   exit_code>>

LoadFail ==
    /\ pc = "load"
    /\ ~load_json_content(disk)
    /\ exit_code' = 1
    /\ pc' = "done"
    /\ hist' = [hist EXCEPT !.steps = @ \cup {"load"}]
    /\ UNCHANGED <<disk, folderExists, files, run, content, filtered_content,
                   removed_entries, final_content, trimmed_entries,
                   sanitize_changes, removed_percent, removed_images>>

\* filtered_content, removed_entries = filter_content_by_existing_images(...)
Filter ==
    /\ pc = "filter"
    /\ \E listOk \in (IF content = <<>> THEN {TRUE} ELSE ListOutcomes) :
         LET r == filter_content_by_existing_images(content, folderExists,
                                                    listOk, files)
         IN  /\ filtered_content' = r.kept
             /\ removed_entries' = r.removed
             /\ hist' = [hist EXCEPT
                           !.steps = @ \cup {"filter"},
                           !.listFail = IF listOk THEN @ ELSE @ \cup {"filter"}]
    /\ pc' = "truncate"
    /\ UNCHANGED <<disk, folderExists, files, run, content, final_content,
                   trimmed_entries, sanitize_changes, removed_percent,
                   removed_images, exit_code>>

\* final_content, trimmed_entries = keep_top_elements(filtered_content, 30)
Truncate ==
    /\ pc = "truncate"
    /\ LET r == keep_top_elements(filtered_content, Limit)
       IN  /\ final_content' = r.kept
           /\ trimmed_entries' = r.removed
    /\ pc' = "sanitize"
    /\ hist' = [hist EXCEPT !.steps = @ \cup {"truncate"}]
    /\ UNCHANGED <<disk, folderExists, files, run, content, filtered_content,
                   removed_entries, sanitize_changes, removed_percent,
                   removed_images, exit_code>>

\* final_content, sanitize_changes = sanitize_asterisks(final_content)
Sanitize ==
    /\ pc = "sanitize"
    /\ LET r == sanitize_asterisks(final_content)
       IN  /\ final_content' = r.content
           /\ sanitize_changes' = r.changes
    /\ pc' = "save"
    /\ hist' = [hist EXCEPT !.steps = @ \cup {"sanitize"}]
    /\ UNCHANGED <<disk, folderExists, files, run, content, filtered_content,
                   removed_entries, trimmed_entries, removed_percent,
                   removed_images, exit_code>>

\* save_json_content: open(file_path, 'w') raises and the file is as it was,
\* or it truncates the file and json.dump either completes or raises with
\* the file empty or partly written
SaveOutcomes == {"written", "open_failed", "write_failed"}

save_json_content(d, c, outcome) ==
    CASE outcome = "written" -> DiskOk(c)
      [] outcome = "open_failed" -> d
      [] outcome = "write_failed" -> DiskMalformed

\* a save step that goes on to the reaper whatever save_json_content returns
Save_IgnoringFailure ==
    /\ pc = "save"
    /\ need_save(removed_entries, trimmed_entries, sanitize_changes)
    /\ \E outcome \in SaveOutcomes :
         /\ disk' = save_json_content(disk, final_content, outcome)
         /\ hist' = [hist EXCEPT !.steps = @ \cup {"save"},
                                 !.saveCalled = TRUE,
                                 !.saveFailed = outcome # "written"]
    /\ pc' = "reap"
    /\ UNCHANGED <<folderExists, files, run, content, filtered_content,
                   removed_entries, final_content, trimmed_entries,
                   sanitize_changes, removed_percent, removed_images,
                   exit_code>>

\* if need_save: if save_json_content(...) ... else: return 1
Save ==
    /\ pc = "save"
    /\ need_save(removed_entries, trimmed_entries, sanitize_changes)
    /\ \E outcome \in SaveOutcomes :
         /\ disk' = save_json_content(disk, final_content, outcome)
         /\ hist' = [hist EXCEPT !.steps = @ \cup {"save"},
                                 !.saveCalled = TRUE,
                                 !.saveFailed = outcome # "written"]
         /\ IF outcome = "written"
            THEN pc' = "reap" /\ UNCHANGED exit_code
            ELSE pc' = "done" /\ exit_code' = 1
    /\ UNCHANGED <<folderExists, files, run, content, filtered_content,
                   removed_entries, final_content, trimmed_entries,
                   sanitize_changes, removed_percent, removed_images>>

SkipSave ==
    /\ pc = "save"
    /\ ~need_save(removed_entries, trimmed_entries, sanitize_changes)
    /\ pc' = "reap"
    /\ UNCHANGED <<disk, folderExists, files, run, content, filtered_content,
                   removed_entries, final_content, trimmed_entries,
                   sanitize_changes, removed_percent, removed_images,
                   exit_code, hist>>

\* removed_images = remove_unused_images(final_content, images_folder); return 0
remove_unused_images ==
    /\ pc = "reap"
    /\ \E listOk \in (IF final_content = <<>> THEN {TRUE} ELSE ListOutcomes) :
         LET candidates == UnusedImages(final_content, folderExists, listOk, files)
         IN  \E failing \in SUBSET candidates :
                /\ removed_images' = candidates \ failing
                /\ files' = files \ removed_images'
                /\ hist' = [hist EXCEPT
                              !.steps = @ \cup {"reap"},
                              !.deleted = @ \cup removed_images',
                              !.delFail = IF failing = {} THEN @ ELSE @ \cup {"reap"},
                              !.listFail = IF listOk THEN @ ELSE @ \cup {"reap"},
                              !.filesAtReap = files]
    /\ exit_code' = 0
    /\ pc' = "done"
    /\ UNCHANGED <<disk, folderExists, run, content, filtered_content,
                   removed_entries, final_content, trimmed_entries,
                   sanitize_changes, removed_percent>>

\* the script is started again on the catalog and folder left by a run
\* that exited 0 and in which no os.remove raised
RunAgain ==
    /\ pc = "done"
    /\ run = 1
    /\ exit_code = 0
    /\ hist.delFail = {}
    /\ run' = 2
    /\ pc' = "purge"
    /\ content' = <<>>
    /\ filtered_content' = <<>>
    /\ removed_entries' = <<>>
    /\ final_content' = <<>>
    /\ trimmed_entries' = <<>>
    /\ sanitize_changes' = 0
    /\ removed_percent' = {}
    /\ removed_images' = {}
    /\ exit_code' = -1
    /\ hist' = FreshHist(disk, files,
                          [changed |-> hist.saveCalled /\ hist.deleted # {},
                           listFail |-> hist.listFail # {}])
    /\ UNCHANGED <<disk, folderExists, files>>

Next ==
    \/ remove_percent_images
    \/ LoadOk
    \/ LoadFail
    \/ Filter
    \/ Truncate
    \/ Sanitize
    \/ Save
    \/ SkipSave
    \/ remove_unused_images
    \/ RunAgain

Spec == Init /\ [][Next]_vars

-----------------------------------------------------------------------------
(* Vocabulary of the properties                                            *)

Range(q) == {q[i] : i \in 1..Len(q)}

\* the entry names an image file: it has an image whose filename is not empty
NamesFile(e) == HasImage(e) /\ ResolveFilename(e["image"].v) # <<>>

\* file f is the image entry e names, case ignored
Matches(e, f) == NamesFile(e) /\ Lower(f) = Lower(ResolveFilename(e["image"].v))

HasImageExtension(f) == \E e \in ImageExtensions : EndsWith(Lower(f), e)

\* the files a reaper pass over catalog c and folder fs is to delete
Unreferenced(c, fs) ==
    { f \in fs :
        /\ HasImageExtension(f)
        /\ Lower(f) # FallbackLower
        /\ \A e \in Range(c) : ~Matches(e, f) }

\* the entry passes the existence filter over folder fs
Passes(e, fs) == ~NamesFile(e) \/ \E f \in fs : Matches(e, f)

Finished == pc = "done"
Loaded == hist.disk0.kind = "ok"
NoListError == hist.listFail = {}

-----------------------------------------------------------------------------
(* C1 *)

\* C1: no step of a run deletes a file whose lower-cased name is
\* 'fallbackimage.png': such a file of the folder at the start of the run
\* is in the folder at every later point of the run.
C1_FallbackNeverDeleted ==
    \A f \in hist.files0 : Lower(f) = FallbackLower => f \in files

\* the reaper has deleted other images while the fallback image, which no
\* entry references, was in the folder
C1_Witness ==
    /\ Finished
    /\ exit_code = 0
    /\ F_fallback \in hist.filesAtReap
    /\ removed_images # {}
    /\ removed_percent # {}
    /\ \A e \in Range(final_content) : ~Matches(e, F_fallback)

-----------------------------------------------------------------------------
(* C2 *)

ReaperRan == Finished /\ exit_code = 0

ReapedExactly(expected) ==
    /\ removed_images = expected
    /\ files = hist.filesAtReap \ expected

\* C2 as stated: for every final catalog, with the folder existing and no
\* deletion error in the reaper, the reaper deletes and records exactly the
\* image-type files that no surviving entry names and that are not the
\* fallback image.
C2_AsStated ==
    (ReaperRan /\ folderExists /\ "reap" \notin hist.delFail)
        => ReapedExactly(Unreferenced(final_content, hist.filesAtReap))

\* C2, amended: the same when moreover the final catalog is not empty and
\* the reaper's listing of the folder succeeds; on an empty final catalog,
\* or when the listing fails, the reaper deletes nothing.
C2_ReaperDeletesExactlyUnreferenced ==
    /\ (ReaperRan /\ folderExists /\ "reap" \notin hist.delFail
            /\ final_content # <<>> /\ "reap" \notin hist.listFail)
        => ReapedExactly(Unreferenced(final_content, hist.filesAtReap))
    /\ (ReaperRan /\ (final_content = <<>> \/ "reap" \in hist.listFail))
        => ReapedExactly({})

\* the reaper deleted an unreferenced image with an upper-case extension and
\* left a referenced image, the fallback image and a non-image file
C2_Witness ==
    /\ ReaperRan
    /\ "reap" \notin hist.delFail
    /\ final_content # <<>>
    /\ removed_images = {F_a}
    /\ {F_fallback, F_txt, F_pct} \subseteq files
    /\ \E e \in Range(final_content) : Matches(e, F_pct)

-----------------------------------------------------------------------------
(* C3 *)

SecondRunChangesNothing ==
    /\ exit_code = 0
    /\ removed_entries = <<>>
    /\ trimmed_entries = <<>>
    /\ sanitize_changes = 0
    /\ ~hist.saveCalled
    /\ hist.deleted = {}
    /\ disk = hist.disk0
    /\ files = hist.files0

\* C3 as stated: a run started on what a run that exited 0 without deletion
\* errors has left exits 0, removes and trims no entry, sanitizes no field,
\* does not write the catalog and deletes no file.
C3_AsStated ==
    (run = 2 /\ Finished) => SecondRunChangesNothing

\* C3, amended: the same when the first run had neither a deletion error
\* nor a failed listing of the folder.
C3_Idempotent ==
    (run = 2 /\ Finished /\ ~hist.prev.listFail) => SecondRunChangesNothing

\* the second run has finished after a first run that wrote the catalog and
\* deleted files, without errors
C3_Witness ==
    /\ run = 2
    /\ Finished
    /\ ~hist.prev.listFail
    /\ hist.prev.changed
    /\ Len(hist.disk0.data) = Limit

-----------------------------------------------------------------------------
(* C4 *)

FilterRemoved == Len(filtered_content) < Len(content)
TruncatorRemoved ==
    Len(final_content) < Len(filtered_content)
SanitizerChanged ==
    final_content # SubSeq(filtered_content, 1, Len(final_content))

\* C4: once main() is past the save step, the catalog file has been written
\* exactly when the filter removed an entry, the truncator removed an entry
\* or the sanitizer changed a field; otherwise the file is as it was.
C4_SaveIffChanged ==
    (pc \in {"reap", "done"} /\ Loaded) =>
        /\ hist.saveCalled <=> (FilterRemoved \/ TruncatorRemoved \/ SanitizerChanged)
        /\ ~hist.saveCalled => disk = hist.disk0

\* the catalog was written for a sanitized field alone
C4_Witness ==
    /\ Finished
    /\ Loaded
    /\ hist.saveCalled
    /\ ~FilterRemoved
    /\ ~TruncatorRemoved
    /\ SanitizerChanged

-----------------------------------------------------------------------------
(* C5 *)

\* C5: main() returns 1 exactly when the catalog could not be loaded or a
\* required save failed; every other run has gone through every step up to
\* the reaper and returns 0.
C5_ExitCode ==
    Finished =>
        /\ exit_code \in {0, 1}
        /\ exit_code = 1 <=> (~Loaded \/ hist.saveFailed)
        /\ exit_code = 0 =>
             {"purge", "load", "filter", "truncate", "sanitize", "reap"}
                 \subseteq hist.steps

\* a run with a failed deletion and a failed listing returned 0
C5_Witness ==
    /\ Finished
    /\ exit_code = 0
    /\ hist.delFail # {}
    /\ hist.listFail # {}
    /\ hist.saveCalled

-----------------------------------------------------------------------------
(* C6 *)

\* C6: when the load fails the run ends with exit code 1, the catalog file
\* is not written, only the purge and the load have run, and every file
\* gone from the folder has '%' in its name.
C6_LoadFailureAborts ==
    (Finished /\ ~Loaded) =>
        /\ exit_code = 1
        /\ ~hist.saveCalled
        /\ disk = hist.disk0
        /\ hist.steps \subseteq {"purge", "load"}
        /\ \A f \in hist.files0 \ files : Contains(f, "%")

\* the load of a malformed catalog failed after the purge had deleted a
\* file, and an image no entry names is still in the folder
C6_Witness ==
    /\ Finished
    /\ hist.disk0.kind = "malformed"
    /\ F_pct \in hist.files0 \ files
    /\ F_a \in files

-----------------------------------------------------------------------------
(* C7 *)

\* C7: when a required write of the catalog fails, the run returns 1 and
\* the catalog file holds what it held before the write.
C7_FailedSaveKeepsFile ==
    hist.saveFailed => (exit_code = 1 /\ disk = hist.disk0)

-----------------------------------------------------------------------------
(* C8 *)

Truncated == pc = "sanitize"

\* C8: the truncator's output is the filtered sequence itself when that has
\* at most 30 entries, and otherwise its first 30 entries with one trimmed
\* record per further entry, carrying its position in the filtered
\* sequence; no entry the filter dropped is among the kept entries or the
\* trimmed records.
C8_TruncatesFiltered ==
    Truncated =>
        LET L == Len(filtered_content)
        IN  /\ L <= Limit =>
                /\ final_content = filtered_content
                /\ trimmed_entries = <<>>
            /\ L > Limit =>
                /\ Len(final_content) = Limit
                /\ \A i \in 1..Limit : final_content[i] = filtered_content[i]
                /\ Len(trimmed_entries) = L - Limit
                /\ \A k \in 1..(L - Limit) :
                     /\ trimmed_entries[k].position = Limit + k
                     /\ trimmed_entries[k].title =
                           Get(filtered_content[Limit + k], "title", NoTitle)
                     /\ trimmed_entries[k].image =
                           Get(filtered_content[Limit + k], "image", NoImage)
            /\ \A r \in Range(removed_entries) :
                 /\ \A e \in Range(final_content) :
                      ~(NamesFile(e) /\ ResolveFilename(e["image"].v) = r.image)
                 /\ \A t \in Range(trimmed_entries) :
                      ResolveFilename(t.image.v) # r.image

\* the filter dropped the first entry of the catalog and the truncator
\* trimmed the last of the 31 entries left
C8_Witness ==
    /\ Truncated
    /\ removed_entries # <<>>
    /\ ~Passes(content[1], files)
    /\ Len(filtered_content) = Limit + 1
    /\ Len(trimmed_entries) = 1

-----------------------------------------------------------------------------
(* C9 *)

Filtered == pc = "truncate"

RemovedRecord(e) ==
    [title |-> Get(e, "title", NoTitle), image |-> ResolveFilename(e["image"].v)]

FilteredExactly ==
    LET dropped == SelectSeq(content, LAMBDA e : ~Passes(e, files))
    IN  /\ filtered_content = SelectSeq(content, LAMBDA e : Passes(e, files))
        /\ removed_entries = [i \in 1..Len(dropped) |-> RemovedRecord(dropped[i])]

FilteredNothing ==
    /\ filtered_content = content
    /\ removed_entries = <<>>

\* C9 as stated: for an existing folder the filter keeps, in order, exactly
\* the entries that name no file or name a file of the folder (case
\* ignored), and records every other entry once with its title and
\* filename; for a missing folder it returns its input and no record.
C9_AsStated ==
    Filtered =>
        /\ folderExists => FilteredExactly
        /\ ~folderExists => FilteredNothing

\* C9, amended: the same for an existing folder whose listing succeeds;
\* when the folder is missing or its listing fails the filter returns its
\* input and no record.
C9_FilterKeepsExactlyExisting ==
    Filtered =>
        /\ (folderExists /\ "filter" \notin hist.listFail) => FilteredExactly
        /\ (~folderExists \/ "filter" \in hist.listFail) => FilteredNothing

\* the filter kept an entry whose file differs in case, an entry with no
\* image and an entry with no filename, and dropped another
C9_Witness ==
    /\ Filtered
    /\ folderExists
    /\ "filter" \notin hist.listFail
    /\ E_a \in Range(filtered_content)
    /\ E_pad \in Range(filtered_content)
    /\ E_noname \in Range(filtered_content)
    /\ Len(removed_entries) = 1

-----------------------------------------------------------------------------
(* C10 *)

Referenced(f) == \E e \in Range(final_content) : Matches(e, f)

Integrity ==
    /\ \A e \in Range(final_content) :
         NamesFile(e) => \E f \in files : Matches(e, f)
    /\ \A f \in removed_percent : ~Referenced(f)
    /\ \A f \in removed_images : ~Referenced(f)

\* C10 as stated: when main() exits 0 and the folder exists, every entry of
\* the final catalog that names a file has that file in the folder (case
\* ignored); no entry names a file the purge deleted, and the reaper
\* deleted no file an entry names.
C10_AsStated ==
    (Finished /\ exit_code = 0 /\ folderExists) => Integrity

\* C10, amended: the same when moreover the filter's listing of the folder
\* succeeded.
C10_ReferentialIntegrity ==
    (Finished /\ exit_code = 0 /\ folderExists /\ "filter" \notin hist.listFail)
        => Integrity

\* the purge deleted a file an entry named, the filter dropped that entry,
\* and the reaper left the file the surviving entry names
C10_Witness ==
    /\ Finished
    /\ exit_code = 0
    /\ folderExists
    /\ NoListError
    /\ F_pct \in removed_percent
    /\ E_pct \in Range(content)
    /\ E_pct \notin Range(final_content)
    /\ F_a \in files
    /\ Referenced(F_a)
    /\ removed_entries # <<>>

====
